---- MODULE Spec2Model ----
(***************************************************************************)
(* Model of prepare_and_send_email.py: the @placeholder@ template engine   *)
(* (EmailTemplate), the template loader, the msmtp delivery client and     *)
(* main().                                                                 *)
(*                                                                         *)
(* Text is a sequence of chunks.  A chunk is either the delimiter "@", a   *)
(* run of word characters (\w+, e.g. "hostname"), or a non-word character  *)
(* (" ", ":", "\n").  No word chunk used here is a concatenation of other  *)
(* word chunks, so equality of chunk sequences is equality of strings.     *)
(***************************************************************************)
EXTENDS Integers, Sequences, FiniteSets, TLC

VARIABLES
    \* ---- EmailTemplate exercised on its own (SpecEngine) ----
    raw,            \* template_str handed to EmailTemplate.__init__
    kwargs,         \* keyword arguments of safe_substitute, in call order
    epc,            \* "new" | "constructed" | "rejected" | "rendered" | "refused"
    eexc,           \* exception raised by __init__ / safe_substitute
    eout,           \* string returned by safe_substitute
    \* ---- one run of the script (Spec) ----
    env,            \* what the run finds outside itself (argv, files, PATH, OS)
    pc,             \* position of the run
    hostname,       \* main: hostname
    template,       \* EmailTemplate.template of the loaded template
    email_content,  \* main: email_content
    outcome,        \* value returned by send_email
    children,       \* number of msmtp child processes spawned
    childStdin,     \* what the children were given on standard input
    log,            \* /var/log/email_script.log, entries appended by this run
    stderrOut,      \* lines the run wrote to standard error
    stdoutOut,      \* lines the run wrote to standard output
    mainRet,        \* value returned by main(): -1 while it has not returned
    exitCode,       \* exit status of the process: -1 while it runs
    trail           \* steps the run has taken, in order

evars == <<raw, kwargs, epc, eexc, eout>>
mvars == <<env, pc, hostname, template, email_content, outcome, children,
           childStdin, log, stderrOut, stdoutOut, mainRet, exitCode, trail>>
vars == <<evars, mvars>>

-----------------------------------------------------------------------------
(* Text                                                                    *)

AT == "@"

\* \w+ runs
WordChunks == {"hostname", "topic", "body", "x", "a", "b", "y", "on", "5",
               "H", "T", "B", "node1", "sysnode", "winbox", "Disk", "full",
               "Check", "var", "From", "To", "Subject", "relay", "timeout"}

IsWord(c) == c \in WordChunks

\* str.strip() removes these
Whitespace == {" ", "\n"}

\* first index >= i of s that is not a word chunk (Len(s)+1 if none)
RECURSIVE WordRunEnd(_, _)
WordRunEnd(s, i) ==
    IF i > Len(s) \/ ~IsWord(s[i]) THEN i ELSE WordRunEnd(s, i + 1)

\* the pattern @(\w+)@ matches at position i of s
MatchAt(s, i) ==
    /\ i <= Len(s)
    /\ s[i] = AT
    /\ LET j == WordRunEnd(s, i + 1)
       IN  j > i + 1 /\ j <= Len(s) /\ s[j] = AT

\* re.findall(r'@(\w+)@', s) as a sequence: leftmost, non-overlapping matches
RECURSIVE FindAllFrom(_, _)
FindAllFrom(s, i) ==
    IF i > Len(s) THEN << >>
    ELSE IF MatchAt(s, i)
         THEN LET j == WordRunEnd(s, i + 1)
              IN  <<SubSeq(s, i + 1, j - 1)>> \o FindAllFrom(s, j + 1)
         ELSE FindAllFrom(s, i + 1)

\* set(re.findall(r'@(\w+)@', s))
FindAll(s) == {FindAllFrom(s, 1)[k] : k \in 1..Len(FindAllFrom(s, 1))}

\* old occurs in s at position i
OccursAt(s, old, i) ==
    /\ i + Len(old) - 1 <= Len(s)
    /\ SubSeq(s, i, i + Len(old) - 1) = old

\* pattern in s
Contains(s, old) == \E i \in 1..Len(s) : OccursAt(s, old, i)

\* s.replace(old, new), old non-empty: leftmost non-overlapping occurrences
RECURSIVE ReplaceFrom(_, _, _, _)
ReplaceFrom(s, old, new, i) ==
    IF i > Len(s) THEN << >>
    ELSE IF OccursAt(s, old, i)
         THEN new \o ReplaceFrom(s, old, new, i + Len(old))
         ELSE <<s[i]>> \o ReplaceFrom(s, old, new, i + 1)

StrReplace(s, old, new) == ReplaceFrom(s, old, new, 1)

\* s.strip()
RECURSIVE LStrip(_)
LStrip(s) ==
    IF s # << >> /\ Head(s) \in Whitespace THEN LStrip(Tail(s)) ELSE s

RECURSIVE RStrip(_)
RStrip(s) ==
    IF s # << >> /\ s[Len(s)] \in Whitespace
    THEN RStrip(SubSeq(s, 1, Len(s) - 1)) ELSE s

\* mutant: only leading whitespace is removed
StripLeading(s) == LStrip(s)

Strip(s) == LStrip(RStrip(s))

-----------------------------------------------------------------------------
(* Exceptions and messages.  A message is a format string with the values  *)
(* interpolated into it: a set of names and/or a text.                     *)

Msg(fmt, names, text) == [fmt |-> fmt, names |-> names, text |-> text]

Exc(type, fmt, names, text) == [type |-> type, msg |-> Msg(fmt, names, text)]

NoExc == Exc("None", "", {}, << >>)

\* class TemplateError(Exception)
TemplateError(fmt, names, text) == Exc("TemplateError", fmt, names, text)

-----------------------------------------------------------------------------
(* EmailTemplate                                                           *)

required_placeholders == {<<"hostname">>, <<"topic">>, <<"body">>}

\* mutant: the required names are not checked
ValidateTemplateAnyPlaceholder(t) ==
    IF FindAll(t) = {}
    THEN TemplateError("Template contains no valid placeholders", {}, << >>)
    ELSE NoExc

\* _validate_template: the exception it raises, NoExc if it returns
ValidateTemplate(t) ==
    LET found_placeholders == FindAll(t)
        missing == required_placeholders \ found_placeholders
    IN  IF found_placeholders = {}
        THEN TemplateError("Template contains no valid placeholders", {}, << >>)
        ELSE IF missing # {}
        THEN TemplateError("Template missing required placeholders: {}", missing, << >>)
        ELSE NoExc

\* kwargs.keys()
Keys(kw) == {kw[k].key : k \in 1..Len(kw)}

\* mutant: the loop returns after its first item
SubstituteLoopFirstItem(result, kw, k) ==
    IF k > Len(kw) THEN result
    ELSE StrReplace(result, <<AT>> \o kw[k].key \o <<AT>>, kw[k].value)

\* the loop "for key, value in kwargs.items()" run on result from item k on
RECURSIVE SubstituteLoop(_, _, _)
SubstituteLoop(result, kw, k) ==
    IF k > Len(kw) THEN result
    ELSE LET pattern == <<AT>> \o kw[k].key \o <<AT>>
         IN  IF Contains(result, pattern)
             THEN SubstituteLoop(StrReplace(result, pattern, kw[k].value), kw, k + 1)
             ELSE SubstituteLoop(result, kw, k + 1)

\* mutant: the values are checked against the required names, not against
\* the names found in the template text
SafeSubstituteRequiredOnly(t, kw) ==
    IF required_placeholders \ Keys(kw) # {}
    THEN [exc |-> TemplateError("Missing values for placeholders: {}",
                                required_placeholders \ Keys(kw), << >>),
          text |-> << >>]
    ELSE [exc |-> NoExc, text |-> SubstituteLoop(t, kw, 1)]

\* safe_substitute(**kw) on self.template = t: [exc, text]
SafeSubstitute(t, kw) ==
    LET required_values == FindAll(t)
        missing_values == required_values \ Keys(kw)
    IN  IF missing_values # {}
        THEN [exc |-> TemplateError("Missing values for placeholders: {}",
                                    missing_values, << >>),
              text |-> << >>]
        ELSE [exc |-> NoExc, text |-> SubstituteLoop(t, kw, 1)]

-----------------------------------------------------------------------------
(* EmailTemplate on its own: the inputs                                    *)

\* longest template assembled from pieces
MaxPieces == 4

Pieces == { <<AT, "hostname", AT>>, <<AT, "topic", AT>>, <<AT, "body", AT>>,
            <<AT, "x", AT>>, <<"hostname", AT>>, <<AT>> }

RECURSIVE Assembled(_)
Assembled(n) ==
    IF n = 0 THEN {<< >>}
    ELSE LET shorter == Assembled(n - 1)
         IN  shorter \cup {t \o p : t \in shorter, p \in Pieces}

\* "@hostname@:@topic@:@body@" and a template with no placeholder at all
ColonTemplate == <<AT, "hostname", AT, ":", AT, "topic", AT, ":", AT, "body", AT>>
PlainText == <<"Disk", " ", "full">>

Templates == Assembled(MaxPieces) \cup {ColonTemplate, PlainText}

Item(k, v) == [key |-> k, value |-> v]

\* values for hostname, topic and body: plain ones, ones that hold
\* "@name@"-shaped text, and an empty one
ValueChoices ==
    { <<<<"H">>, <<"T">>, <<"B">>>>,
      <<<<AT, "topic", AT>>, <<"T">>, <<"B">>>>,
      <<<<"H">>, <<AT, "body", AT>>, <<"B">>>>,
      <<<<"H">>, <<"T">>, <<"on", " ", AT, "5", AT>>>>,
      <<<<"H">>, <<"T">>, << >>>> }

\* keyword arguments: the three names in main's order and in two other
\* orders, with one name left out, and with a name more
KwargsOf(h, t, b) ==
    { <<Item(<<"hostname">>, h), Item(<<"topic">>, t), Item(<<"body">>, b)>>,
      <<Item(<<"body">>, b), Item(<<"topic">>, t), Item(<<"hostname">>, h)>>,
      <<Item(<<"topic">>, t), Item(<<"body">>, b), Item(<<"hostname">>, h)>>,
      <<Item(<<"hostname">>, h), Item(<<"topic">>, t)>>,
      <<Item(<<"hostname">>, h), Item(<<"topic">>, t), Item(<<"body">>, b),
        Item(<<"x">>, <<"y">>)>> }

KwargsSet == UNION { KwargsOf(v[1], v[2], v[3]) : v \in ValueChoices }

-----------------------------------------------------------------------------
(* One run of the script: its inputs                                       *)

Given(v) == [given |-> TRUE, v |-> v]
NotGiven == [given |-> FALSE, v |-> << >>]

ArgTopics    == {NotGiven, Given(<<"Disk", " ", "full">>), Given(<<AT, "body", AT>>)}
ArgBodies    == {NotGiven, Given(<<"Check", " ", "/", "var">>)}
ArgHostnames == {NotGiven, Given(<< >>), Given(<<"node1">>), Given(<<AT, "topic", AT>>)}

Argvs == [help : BOOLEAN, topic : ArgTopics, body : ArgBodies, hostname : ArgHostnames]

\* the platform: os.uname present or not, and the COMPUTERNAME variable
Platforms == { [uname |-> TRUE,  nodename |-> <<"sysnode">>, computername |-> NotGiven],
               [uname |-> FALSE, nodename |-> << >>, computername |-> Given(<<"winbox">>)],
               [uname |-> FALSE, nodename |-> << >>, computername |-> NotGiven] }

ScenarioA ==
    <<"From", ":", " ", "a", AT, "x", "\n", "To", ":", " ", "b", AT, "y", "\n",
      "Subject", ":", " ", AT, "topic", AT, "\n", "\n",
      AT, "body", AT, " ", "on", " ", AT, "hostname", AT>>

FileContents ==
    { ScenarioA,
      ColonTemplate,
      ColonTemplate \o <<" ", AT, "x", AT>>,
      <<AT, "hostname", AT, ":", AT, "topic", AT>>,
      PlainText,
      <<AT, "topic", AT, "hostname", AT, " ", AT, "hostname", AT, " ", AT, "body", AT>> }

\* template.txt next to the script
Files == { [kind |-> "absent", content |-> << >>],
           [kind |-> "unreadable", content |-> << >>] }
         \cup { [kind |-> "text", content |-> c] : c \in FileContents }

ExitStatuses == {0, 1, 3}

StderrTexts == { << >>, <<"relay", " ", "timeout">>,
                 <<" ", "relay", " ", "timeout", "\n">> }

template_path == <<"<script_dir>/template.txt">>
msmtp_config == <<"~/.msmtprc">>

-----------------------------------------------------------------------------
(* Initial states                                                          *)

EngineIdle ==
    /\ raw = << >>
    /\ kwargs = << >>
    /\ epc = "idle"
    /\ eexc = NoExc
    /\ eout = << >>

NoOutcome == [returned |-> FALSE, success |-> FALSE, hasError |-> FALSE, error |-> << >>]

NoEnv == [argv |-> [help |-> FALSE, topic |-> NotGiven, body |-> NotGiven,
                    hostname |-> NotGiven],
          logWritable |-> "?", file |-> "?", msmtprc |-> "?", popen |-> "?",
          communicate |-> "?", status |-> -1, stderr |-> << >>]

MainAt(p, argv) ==
    /\ env = [NoEnv EXCEPT !.argv = argv]
    /\ pc = p
    /\ hostname = << >>
    /\ template = << >>
    /\ email_content = << >>
    /\ outcome = NoOutcome
    /\ children = 0
    /\ childStdin = << >>
    /\ log = << >>
    /\ stderrOut = << >>
    /\ stdoutOut = << >>
    /\ mainRet = -1
    /\ exitCode = -1
    /\ trail = << >>

\* the script is started with some command line
Init ==
    /\ EngineIdle
    /\ \E argv \in Argvs : MainAt("import", argv)

\* EmailTemplate is about to be constructed on some string
InitEngine ==
    /\ raw \in Templates
    /\ kwargs = << >>
    /\ epc = "new"
    /\ eexc = NoExc
    /\ eout = << >>
    /\ MainAt("idle", NoEnv.argv)

-----------------------------------------------------------------------------
(* EmailTemplate on its own: the operations                                *)

\* EmailTemplate(raw)
Construct ==
    /\ epc = "new"
    /\ eexc' = ValidateTemplate(raw)
    /\ epc' = IF ValidateTemplate(raw) = NoExc THEN "constructed" ELSE "rejected"
    /\ UNCHANGED <<raw, kwargs, eout, mvars>>

\* self.safe_substitute(**kw)
Substitute ==
    /\ epc = "constructed"
    /\ \E kw \in KwargsSet :
        LET r == SafeSubstitute(raw, kw)
        IN  /\ kwargs' = kw
            /\ eexc' = r.exc
            /\ eout' = r.text
            /\ epc' = IF r.exc = NoExc THEN "rendered" ELSE "refused"
    /\ UNCHANGED <<raw, mvars>>

NextEngine == Construct \/ Substitute

SpecEngine == InitEngine /\ [][NextEngine]_vars

-----------------------------------------------------------------------------
(* One run of the script: the steps                                        *)

Line(prefix, msg) == [prefix |-> prefix, msg |-> msg]
Entry(level, prefix, msg) == [level |-> level, prefix |-> prefix, msg |-> msg]

\* the process ends with this status without main() having returned
ExitWith(code) ==
    /\ exitCode' = code
    /\ pc' = "done"

\* an exception that reaches "except Exception as e" in main: logged,
\* printed, main returns 1 and sys.exit(main()) ends the process with it
Handled(e) ==
    /\ log' = Append(log, Entry("ERROR", "Script failed: ", e.msg))
    /\ stderrOut' = Append(stderrOut, Line("Error: ", e.msg))
    /\ mainRet' = 1
    /\ ExitWith(1)

\* get_hostname() on platform os
get_hostname(os) ==
    IF os.uname THEN os.nodename
    ELSE IF os.computername.given THEN os.computername.v
    ELSE <<"unknown-host">>

\* the module is imported: logging.basicConfig opens the log file
LoggingSetup ==
    /\ pc = "import"
    /\ \E writable \in {"writable", "unwritable"} :
        /\ env' = [env EXCEPT !.logWritable = writable]
        /\ IF writable = "writable"
           THEN /\ pc' = "main"
                /\ UNCHANGED <<stderrOut, exitCode>>
           ELSE \* PermissionError outside any try: the interpreter prints
                \* the traceback and exits 1
                /\ stderrOut' = Append(stderrOut,
                      Line("Traceback (most recent call last): ",
                           Msg("PermissionError: {}", {}, <<"/var/log/email_script.log">>)))
                /\ ExitWith(1)
    /\ trail' = Append(trail, "logging")
    /\ UNCHANGED <<evars, hostname, template, email_content, outcome, children,
                   childStdin, log, stdoutOut, mainRet>>

\* the required options argv does not give
MissingOptions(argv) ==
    {o \in {<<"-t/--topic">>, <<"-b/--body">>} :
        \/ o = <<"-t/--topic">> /\ ~argv.topic.given
        \/ o = <<"-b/--body">> /\ ~argv.body.given}

\* main, up to the template path: parse_args, hostname, the debug entries.
\* parse_args leaves through sys.exit (SystemExit is no Exception): with
\* status 0 after printing the help, with status 2 after a usage error.
ParseArgs ==
    /\ pc = "main"
    /\ LET argv == env.argv
       IN  IF argv.help
           THEN /\ stdoutOut' = Append(stdoutOut, Line("usage: ", Msg("help", {}, << >>)))
                /\ ExitWith(0)
                /\ UNCHANGED <<stderrOut, hostname, log>>
           ELSE IF MissingOptions(argv) # {}
           THEN /\ stderrOut' = Append(stderrOut,
                      Line("usage: ", Msg("error: the following arguments are required: {}",
                                          MissingOptions(argv), << >>)))
                /\ ExitWith(2)
                /\ UNCHANGED <<stdoutOut, hostname, log>>
           ELSE \E os \in Platforms :
                LET h == IF argv.hostname.given /\ argv.hostname.v # << >>
                         THEN argv.hostname.v ELSE get_hostname(os)
                IN  /\ hostname' = h
                    /\ log' = log \o
                         << Entry("DEBUG", "Input parameters:", Msg("", {}, << >>)),
                            Entry("DEBUG", "  Topic: ", Msg("{}", {}, argv.topic.v)),
                            Entry("DEBUG", "  Body: ", Msg("{}", {}, argv.body.v)),
                            Entry("DEBUG", "  Hostname: ", Msg("{}", {}, h)) >>
                    /\ pc' = "read_template"
                    /\ UNCHANGED <<stdoutOut, stderrOut, exitCode>>
    /\ trail' = Append(trail, "parse_args")
    /\ UNCHANGED <<evars, env, template, email_content, outcome, children,
                   childStdin, mainRet>>

\* read_template(template_path)
ReadTemplate ==
    /\ pc = "read_template"
    /\ \E f \in Files :
        /\ env' = [env EXCEPT !.file = f.kind]
        /\ IF f.kind = "absent"
           THEN /\ Handled(Exc("FileNotFoundError", "Template file not found: {}",
                               {}, template_path))
                /\ UNCHANGED template
           ELSE IF f.kind = "unreadable"
           THEN /\ Handled(TemplateError("Error reading template file: {}", {},
                                         <<"[Errno 13] Permission denied">>))
                /\ UNCHANGED template
           ELSE IF ValidateTemplate(f.content) # NoExc
           THEN /\ Handled(ValidateTemplate(f.content))
                /\ template' = f.content
           ELSE /\ template' = f.content
                /\ pc' = "substitute"
                /\ UNCHANGED <<log, stderrOut, mainRet, exitCode>>
    /\ trail' = Append(trail, "read_template")
    /\ UNCHANGED <<evars, hostname, email_content, outcome, children, childStdin,
                   stdoutOut>>

\* the keyword arguments main passes to safe_substitute
MainKwargs ==
    << Item(<<"hostname">>, hostname), Item(<<"topic">>, env.argv.topic.v),
       Item(<<"body">>, env.argv.body.v) >>

\* template.safe_substitute(hostname=..., topic=..., body=...)
Render ==
    /\ pc = "substitute"
    /\ LET r == SafeSubstitute(template, MainKwargs)
       IN  IF r.exc # NoExc
           THEN /\ Handled(r.exc)
                /\ UNCHANGED email_content
           ELSE /\ email_content' = r.text
                /\ pc' = "send_email"
                /\ UNCHANGED <<log, stderrOut, mainRet, exitCode>>
    /\ trail' = Append(trail, "safe_substitute")
    /\ UNCHANGED <<evars, env, hostname, template, outcome, children, childStdin,
                   stdoutOut>>

\* mutant: the config file is looked for but its absence is not raised
CheckConfigNotRaised ==
    /\ pc = "send_email"
    /\ \E config \in {"present", "absent"} :
        /\ env' = [env EXCEPT !.msmtprc = config]
        /\ pc' = "popen"
    /\ trail' = Append(trail, "check_config")
    /\ UNCHANGED <<evars, hostname, template, email_content, outcome, children,
                   childStdin, stdoutOut, log, stderrOut, mainRet, exitCode>>

\* send_email: the check for ~/.msmtprc
CheckConfig ==
    /\ pc = "send_email"
    /\ \E config \in {"present", "absent"} :
        /\ env' = [env EXCEPT !.msmtprc = config]
        /\ IF config = "present"
           THEN /\ pc' = "popen"
                /\ UNCHANGED <<log, stderrOut, mainRet, exitCode>>
           ELSE Handled(Exc("RuntimeError", "msmtp config not found: {}", {}, msmtp_config))
    /\ trail' = Append(trail, "check_config")
    /\ UNCHANGED <<evars, hostname, template, email_content, outcome, children,
                   childStdin, stdoutOut>>

\* what send_email returns
Outcome(success, hasError, error) ==
    [returned |-> TRUE, success |-> success, hasError |-> hasError, error |-> error]

\* main after send_email returned (False, error)
DeliveryFailed(error) ==
    Handled(Exc("RuntimeError", "Failed to send email: {}", {}, error))

\* the exception classes "except subprocess.SubprocessError" catches
CaughtBySendEmail == {"SubprocessError"}

\* send_email leaves through an exception of class cls with text str(e)
Raised(cls, text) ==
    IF cls \in CaughtBySendEmail
    THEN /\ outcome' = Outcome(FALSE, TRUE, text)
         /\ DeliveryFailed(text)
    ELSE /\ Handled(Exc(cls, "{}", {}, text))
         /\ UNCHANGED outcome

\* send_email: subprocess.Popen(['msmtp', ...])
Popen ==
    /\ pc = "popen"
    /\ \E r \in {"ok", "FileNotFoundError", "SubprocessError"} :
        /\ env' = [env EXCEPT !.popen = r]
        /\ IF r = "ok"
           THEN /\ children' = children + 1
                /\ pc' = "communicate"
                /\ UNCHANGED <<outcome, log, stderrOut, mainRet, exitCode>>
           ELSE /\ Raised(r, IF r = "FileNotFoundError"
                             THEN <<"[Errno 2] No such file or directory: 'msmtp'">>
                             ELSE <<"Bad exception data from child">>)
                /\ UNCHANGED children
    /\ trail' = Append(trail, "popen")
    /\ UNCHANGED <<evars, hostname, template, email_content, childStdin, stdoutOut>>

\* send_email: process.communicate(input=content) and the exit status;
\* main: the success entry and return 0
Communicate ==
    /\ pc = "communicate"
    /\ \E r \in {"ok", "UnicodeDecodeError"}, status \in ExitStatuses,
          err \in StderrTexts :
        /\ env' = [env EXCEPT !.communicate = r, !.status = status, !.stderr = err]
        /\ childStdin' = Append(childStdin, email_content)
        /\ IF r # "ok"
           THEN Raised(r, <<"'utf-8' codec can't decode byte">>)
           ELSE IF status # 0
           THEN /\ outcome' = Outcome(FALSE, TRUE, Strip(err))
                /\ DeliveryFailed(Strip(err))
           ELSE /\ outcome' = Outcome(TRUE, FALSE, << >>)
                /\ log' = Append(log, Entry("INFO", "Email sent successfully",
                                            Msg("", {}, << >>)))
                /\ mainRet' = 0
                /\ ExitWith(0)
                /\ UNCHANGED stderrOut
    /\ trail' = Append(trail, "communicate")
    /\ UNCHANGED <<evars, hostname, template, email_content, children, stdoutOut>>

Next ==
    \/ LoggingSetup
    \/ ParseArgs
    \/ ReadTemplate
    \/ Render
    \/ CheckConfig
    \/ Popen
    \/ Communicate

Spec == Init /\ [][Next]_vars

\* the script is run, or EmailTemplate is exercised on its own
InitAll == Init \/ InitEngine

NextAll == Next \/ NextEngine

SpecAll == InitAll /\ [][NextAll]_vars

-----------------------------------------------------------------------------
(* Vocabulary of the properties                                            *)

\* s[i..j] reads "@" + one or more word characters + "@"
TokenAt(s, i, j) ==
    /\ i + 1 < j
    /\ s[i] = AT
    /\ s[j] = AT
    /\ \A k \in (i + 1)..(j - 1) : IsWord(s[k])

Positions(s) == (1..Len(s)) \X (1..Len(s))

\* s holds placeholder syntax somewhere
HasPlaceholderSyntax(s) == \E p \in Positions(s) : TokenAt(s, p[1], p[2])

\* the names that appear in s between two "@"
NamesAppearing(s) ==
    {SubSeq(s, p[1] + 1, p[2] - 1) : p \in {q \in Positions(s) : TokenAt(s, q[1], q[2])}}

\* every "@" of s delimits exactly one token: none is stray, none is shared
SeparateTokens(s) ==
    \A k \in 1..Len(s) :
        s[k] = AT =>
            Cardinality({p \in Positions(s) : TokenAt(s, p[1], p[2]) /\ k \in {p[1], p[2]}}) = 1

HasAt(s) == \E k \in 1..Len(s) : s[k] = AT

Token(key) == <<AT>> \o key \o <<AT>>

\* r is s without its leading and trailing whitespace
IsTrimOf(r, s) ==
    /\ r = << >> \/ (r[1] \notin Whitespace /\ r[Len(r)] \notin Whitespace)
    /\ \E i \in 1..(Len(s) + 1) :
        /\ i + Len(r) - 1 <= Len(s)
        /\ SubSeq(s, i, i + Len(r) - 1) = r
        /\ \A k \in 1..Len(s) :
              (k < i \/ k > i + Len(r) - 1) => s[k] \in Whitespace

-----------------------------------------------------------------------------
(* C7: construction                                                        *)

\* C7 as stated: construction succeeds exactly when the template contains
\* @hostname@, @topic@ and @body@; the discovered set is then the set of
\* names appearing between "@"s; and every rejection reports the missing
\* set required-minus-found, a template with no placeholder included.
C7_AsStated ==
    epc \in {"constructed", "rejected"} =>
        /\ (epc = "constructed") <=>
               (\A n \in required_placeholders : Contains(raw, Token(n)))
        /\ epc = "constructed" => FindAll(raw) = NamesAppearing(raw)
        /\ epc = "rejected" =>
               /\ eexc.type = "TemplateError"
               /\ eexc.msg.names = required_placeholders \ FindAll(raw)

\* C7 amended: with "found" the names the left-to-right, non-overlapping
\* scan discovers, construction succeeds exactly when found contains the
\* three required names; a template with no discovered placeholder is
\* rejected with "Template contains no valid placeholders" and no missing
\* set; any other rejection reports required-minus-found, which is not empty.
C7_Construction ==
    epc \in {"constructed", "rejected"} =>
        /\ (epc = "constructed") <=> (required_placeholders \subseteq FindAll(raw))
        /\ epc = "constructed" => eexc = NoExc /\ FindAll(raw) \subseteq NamesAppearing(raw)
        /\ epc = "rejected" =>
               /\ eexc.type = "TemplateError"
               /\ IF \A p \in Positions(raw) : ~TokenAt(raw, p[1], p[2])
                  THEN eexc.msg = Msg("Template contains no valid placeholders", {}, << >>)
                  ELSE /\ eexc.msg.fmt = "Template missing required placeholders: {}"
                       /\ eexc.msg.names = required_placeholders \ FindAll(raw)
                       /\ eexc.msg.names # {}

\* a template that lacks one required name and holds another was rejected
C7_Witness ==
    /\ epc = "rejected"
    /\ FindAll(raw) # {}
    /\ eexc.msg.names = {<<"body">>}

-----------------------------------------------------------------------------
(* C8: values missing at substitution time                                 *)

LastLine(lines) == lines[Len(lines)]

-----------------------------------------------------------------------------
(* C9: what a rendered message can still hold                              *)

ValuesWithoutAt(kw) == \A k \in 1..Len(kw) : ~HasAt(kw[k].value)

-----------------------------------------------------------------------------
(* C6: values are inserted verbatim                                        *)

\* C6: in a rendered message, the value of every key whose placeholder the
\* template holds appears as supplied, "@name@"-shaped or not.
C6_Verbatim ==
    epc = "rendered" =>
        \A k \in 1..Len(kwargs) :
            kwargs[k].key \in FindAll(raw) => Contains(eout, kwargs[k].value)

-----------------------------------------------------------------------------
(* C10: whole-token replacement against the template                       *)

\* the item of kw whose token occurs in s at position i (0 if none)
ItemAt(s, kw, i) ==
    IF \E k \in 1..Len(kw) : OccursAt(s, Token(kw[k].key), i)
    THEN CHOOSE k \in 1..Len(kw) : OccursAt(s, Token(kw[k].key), i)
    ELSE 0

\* s with every occurrence of a supplied key's token replaced by its value,
\* in one pass over s
RECURSIVE WholeTokens(_, _, _)
WholeTokens(s, kw, i) ==
    IF i > Len(s) THEN << >>
    ELSE IF ItemAt(s, kw, i) # 0
         THEN kw[ItemAt(s, kw, i)].value
                  \o WholeTokens(s, kw, i + Len(Token(kw[ItemAt(s, kw, i)].key)))
         ELSE <<s[i]>> \o WholeTokens(s, kw, i + 1)

\* the orders in which the items of kw can be processed
Reorderings(kw) ==
    {o \in [1..Len(kw) -> 1..Len(kw)] : \A a, b \in 1..Len(kw) : a # b => o[a] # o[b]}

Reordered(kw, o) == [k \in 1..Len(kw) |-> kw[o[k]]]

\* two tokens of different supplied keys overlap in s
TokensOverlap(s, kw) ==
    \E a, b \in 1..Len(kw), i, j \in 1..Len(s) :
        /\ a # b
        /\ OccursAt(s, Token(kw[a].key), i)
        /\ OccursAt(s, Token(kw[b].key), j)
        /\ i < j
        /\ j < i + Len(Token(kw[a].key))

\* C10: the rendered message is the template with every occurrence of each
\* supplied key's token replaced by the key's value, whatever the order the
\* keys are processed in, and tokens of different keys never overlap.
\* Stated for values that hold no "@", which leaves the case of C6 aside.
C10_WholeTokens ==
    (epc = "rendered" /\ ValuesWithoutAt(kwargs)) =>
        /\ ~TokensOverlap(raw, kwargs)
        /\ eout = WholeTokens(raw, kwargs, 1)
        /\ \A o \in Reorderings(kwargs) :
              SafeSubstitute(raw, Reordered(kwargs, o)).text = eout

-----------------------------------------------------------------------------
(* C1: the two terminal states                                             *)

\* the run ended the way "except Exception" in main ends it
EndedHandled ==
    /\ exitCode = 1
    /\ mainRet = 1
    /\ log # << >> /\ LastLine(log).level = "ERROR"
    /\ stderrOut # << >> /\ LastLine(stderrOut).prefix = "Error: "
    /\ LastLine(stderrOut).msg = LastLine(log).msg

\* C1: every run ends with exit status 0 or 1, and a run that failed at any
\* stage ended with the error logged, "Error: <message>" printed and exit
\* status 1.  Stated for the runs that could open the log file, which the
\* script lists among its requirements.
C1_TwoTerminalStates ==
    (pc = "done" /\ env.logWritable = "writable") => (exitCode = 0 \/ EndedHandled)

-----------------------------------------------------------------------------
(* C2: the order of the steps                                              *)

StepOrder == <<"logging", "parse_args", "read_template", "safe_substitute",
               "check_config", "popen", "communicate">>

Taken(step) == \E k \in 1..Len(trail) : trail[k] = step

\* C2: the steps run in order, each only after the earlier ones succeeded:
\* substitution after the template was loaded and validated, the config
\* check after substitution succeeded, the child after the config file was
\* found; a run that finds the template file absent attempts no
\* substitution, one that finds the config file absent spawns no child, and
\* both end with exit status 1.
C2_StepOrder ==
    /\ Len(trail) <= Len(StepOrder)
    /\ trail = SubSeq(StepOrder, 1, Len(trail))
    /\ Taken("safe_substitute") =>
          /\ env.file = "text"
          /\ required_placeholders \subseteq NamesAppearing(template)
    /\ Taken("check_config") =>
          /\ FindAll(template) \subseteq Keys(MainKwargs)
          /\ email_content # << >>
    /\ (Taken("popen") \/ children > 0) => env.msmtprc = "present"
    /\ children > 0 => env.popen = "ok"
    /\ (pc = "done" /\ env.file = "absent") =>
          /\ ~Taken("safe_substitute")
          /\ email_content = << >>
          /\ children = 0
          /\ exitCode = 1
    /\ (pc = "done" /\ env.msmtprc = "absent") =>
          /\ ~Taken("popen")
          /\ children = 0
          /\ exitCode = 1

\* a run ended at the config check: the file is absent and no child exists
C2_Witness ==
    /\ pc = "done"
    /\ env.msmtprc = "absent"
    /\ LastLine(trail) = "check_config"
    /\ email_content # << >>

-----------------------------------------------------------------------------
(* C3: delivery is all or nothing                                          *)

\* C3: a run spawns at most one child; main returns 0, after the success
\* entry, only if the child was spawned, was given exactly the rendered
\* message and exited with status 0; in every run in which no child was
\* spawned or the child exited non-zero, main returns 1.  Stated for the
\* runs that entered main.
C3_AllOrNothing ==
    (pc = "done" /\ Taken("parse_args")) =>
        /\ children <= 1
        /\ mainRet = 0 =>
              /\ children = 1
              /\ childStdin = <<email_content>>
              /\ env.status = 0
              /\ LastLine(log).prefix = "Email sent successfully"
        /\ (children = 0 \/ env.status # 0) => mainRet = 1

-----------------------------------------------------------------------------
(* C4: exceptions of the child's creation and communication                *)

\* C4: when creating the child or communicating with it raises, send_email
\* returns (False, <description>) and the run prints
\* "Error: Failed to send email: <description>" and exits 1.
C4_SpawnFailureIsDeliveryFailure ==
    (pc = "done" /\ (env.popen \notin {"?", "ok"} \/ env.communicate \notin {"?", "ok"})) =>
        /\ outcome.returned
        /\ ~outcome.success
        /\ outcome.hasError
        /\ LastLine(stderrOut) =
              Line("Error: ", Msg("Failed to send email: {}", {}, outcome.error))
        /\ exitCode = 1

-----------------------------------------------------------------------------
(* C5: the delivery outcome                                                *)

RelayTimeout == <<"relay", " ", "timeout">>

\* C5: when the child has exited, send_email returns (True, None) exactly
\* when the exit status is 0 and (False, stderr trimmed) otherwise; no
\* outcome is a success with a non-empty error text; a child that exits 3
\* with "relay timeout" on stderr gives (False, "relay timeout"), the line
\* "Error: Failed to send email: relay timeout" and exit status 1.
C5_Outcome ==
    /\ outcome.returned => ~(outcome.success /\ outcome.error # << >>)
    /\ (pc = "done" /\ env.communicate = "ok") =>
          /\ outcome.returned
          /\ outcome.success <=> (env.status = 0)
          /\ env.status = 0 => (~outcome.hasError /\ exitCode = 0)
          /\ env.status # 0 =>
                /\ outcome.hasError
                /\ IsTrimOf(outcome.error, env.stderr)
                /\ LastLine(stderrOut) =
                      Line("Error: ", Msg("Failed to send email: {}", {}, outcome.error))
                /\ exitCode = 1
          /\ (env.status = 3 /\ IsTrimOf(RelayTimeout, env.stderr)) =>
                outcome.error = RelayTimeout

\* the child exited 3 with " relay timeout\n" on stderr
C5_Witness ==
    /\ pc = "done"
    /\ env.communicate = "ok"
    /\ env.status = 3
    /\ env.stderr = <<" ">> \o RelayTimeout \o <<"\n">>
    /\ outcome.error = RelayTimeout

====
